---- MODULE Spec2Model ----
(***************************************************************************)
(* Model of server.js, the Israeli vehicle lookup relay: an Express app    *)
(* whose one asynchronous handler, GET /api/vehicle/:plateNumber,          *)
(* validates the plate, strips its non-digits, awaits one axios.get to the *)
(* government datastore and maps the settlement to a JSON envelope.        *)
(*                                                                         *)
(* A string is a sequence of UTF-16 code units (45 is '-', 48..57 are      *)
(* '0'..'9').  A JavaScript object is a record whose                       *)
(* DOMAIN is the set of properties it has; a property that is undefined is *)
(* absent from the DOMAIN.  The Hebrew message literals of the source are  *)
(* named by the MSG_ strings below (the source line is given with each).   *)
(***************************************************************************)
EXTENDS Integers, Sequences, FiniteSets, TLC

VARIABLES
    proc,           \* "running" | "closing" (server.close() called) | "exited"
    pc,             \* per request: "idle" | "awaiting" (suspended at the await) | "responded"
    route,          \* per request: the handler Express dispatched it to
    plateNumber,    \* per request: req.params.plateNumber
    upstreamCalls,  \* per request: the params of every axios.get issued, in order
    settled,        \* per request: how the awaited axios promise settled
    responses       \* per request: every response written, in order

vars == <<proc, pc, route, plateNumber, upstreamCalls, settled, responses>>

----------------------------------------------------------------------------
(* Bounds of the model *)

NumRequests == 2
MaxPlateLen == 9
MaxRecords == 2

Requests == 1..NumRequests

----------------------------------------------------------------------------
(* Constants of the program *)

MinPlateLength == 7
MaxPlateLength == 8
CharCode0 == 48
CharCode9 == 57
ResultLimit == 1

ResourceId == "053cea08-09bc-40ec-8f7a-156f0677aff3"

MsgInvalidPlate == "MSG_INVALID_PLATE_7_8_DIGITS_REQUIRED"    \* line 43
MsgNoRecords == "MSG_NO_DATA_FOR_THIS_PLATE"                  \* line 83
MsgApiError == "MSG_ERROR_IN_DATASTORE_RESPONSE"              \* line 91
MsgTimeout == "MSG_DATASTORE_CONNECTION_FAILED_TIMEOUT"       \* line 102
MsgUpstreamError == "MSG_ERROR_CONNECTING_TO_DATASTORE"       \* line 108
MsgNoResponse == "MSG_NO_RESPONSE_FROM_DATASTORE"             \* line 115
MsgInternal == "MSG_INTERNAL_SERVER_ERROR"                    \* line 121

----------------------------------------------------------------------------
(* Inputs *)

\* '-', '0' and '9': one character outside [0-9] and the two ends of the class.
Alphabet == {45, 48, 57}

\* Every string over Alphabet of length 0..MaxPlateLen.
PlateInputs == UNION {[1..n -> Alphabet] : n \in 0..MaxPlateLen}

\* "123456", "12-345-6", "123456789"
SamplePlates ==
    { <<49, 50, 51, 52, 53, 54>>,
      <<49, 50, 45, 51, 52, 53, 45, 54>>,
      <<49, 50, 51, 52, 53, 54, 55, 56, 57>> }

\* Records of the datastore: open-ended mappings; mispar_rechev may be missing.
VehicleRecords ==
    { [mispar_rechev |-> "60570703", tozeret_nm |-> "MAZDA"],
      [tozeret_nm |-> "SKODA"] }

RecordLists == UNION {[1..n -> VehicleRecords] : n \in 0..MaxRecords}

\* response.data.result: with a records list, or without one.
Results == {[records |-> l] : l \in RecordLists} \cup {[total |-> 0]}

HelpUrl == "https://data.gov.il/api/3/action/help_show?name=datastore_search"

\* response.data of a 2xx reply: success and result each present or not.
Payloads ==
    {[help |-> HelpUrl, success |-> s, result |-> res] : s \in BOOLEAN, res \in Results}
    \cup {[help |-> HelpUrl, success |-> s] : s \in BOOLEAN}
    \cup {[help |-> HelpUrl, result |-> res] : res \in Results}
    \cup {[help |-> HelpUrl]}

\* The axios response of a 2xx reply; an empty body leaves data falsy (absent).
AxiosResponses ==
    {[status |-> 200, data |-> d] : d \in Payloads} \cup {[status |-> 200]}

\* One 2xx reply for each branch of the try block: a record, no record, the
\* success flag false, an empty body.
SampleResponses ==
    { [status |-> 200,
       data |-> [help |-> HelpUrl, success |-> TRUE,
                 result |-> [records |-> <<[mispar_rechev |-> "60570703", tozeret_nm |-> "MAZDA"]>>]]],
      [status |-> 200,
       data |-> [help |-> HelpUrl, success |-> TRUE, result |-> [records |-> <<>>]]],
      [status |-> 200, data |-> [help |-> HelpUrl, success |-> FALSE]],
      [status |-> 200] }

\* error.response of a reply outside 2xx.
ErrorResponses ==
    { [status |-> 404, statusText |-> "Not Found"],
      [status |-> 503, statusText |-> "Service Unavailable"] }

ErrorCodes == {"ECONNABORTED", "ECONNRESET"}

ClientRequest == [method |-> "GET", host |-> "data.gov.il"]

ErrorMessage(code) ==
    IF code = "ECONNABORTED" THEN "timeout of 15000ms exceeded" ELSE "request failed"

\* What the awaited call may reject with: response and request each present
\* or not, with a code or (a plain Error) without one.
AxiosErrors ==
    {[code |-> c, message |-> ErrorMessage(c), request |-> ClientRequest, response |-> er] :
        c \in ErrorCodes, er \in ErrorResponses}
    \cup {[code |-> c, message |-> ErrorMessage(c), response |-> er] :
        c \in ErrorCodes, er \in ErrorResponses}
    \cup {[code |-> c, message |-> ErrorMessage(c), request |-> ClientRequest] : c \in ErrorCodes}
    \cup {[code |-> c, message |-> ErrorMessage(c)] : c \in ErrorCodes}
    \cup {[message |-> "Invalid URL"]}

\* The rejection of axios' own timer (timeout: 15000).
TimeoutError ==
    [code |-> "ECONNABORTED", message |-> ErrorMessage("ECONNABORTED"), request |-> ClientRequest]

----------------------------------------------------------------------------
(* The lookup handler's pure parts *)

\* The validation without its upper limit.
InvalidPlateNoUpperLimit(p) ==
    p = <<>> \/ Len(p) < MinPlateLength

\* !plateNumber || plateNumber.length < 7 || plateNumber.length > 8
InvalidPlate(p) ==
    p = <<>> \/ Len(p) < MinPlateLength \/ Len(p) > MaxPlateLength

\* The character class [^1-9].
NonNumericFromOne(c) == c <= CharCode0 \/ c > CharCode9

\* The character class [^0-9].
NonNumeric(c) == c < CharCode0 \/ c > CharCode9

\* plateNumber.replace(/[^0-9]/g, ''): left to right, each match replaced by ''.
RECURSIVE ReplaceNonNumeric(_)
ReplaceNonNumeric(p) ==
    IF p = <<>> THEN <<>>
    ELSE IF NonNumeric(Head(p)) THEN ReplaceNonNumeric(Tail(p))
    ELSE <<Head(p)>> \o ReplaceNonNumeric(Tail(p))

cleanPlate(p) == ReplaceNonNumeric(p)

\* The params of the axios.get.
AxiosParams(p) == [resource_id |-> ResourceId, q |-> cleanPlate(p), limit |-> ResultLimit]

Json(status, body) == [status |-> status, body |-> body]

ValidationResponse == Json(400, [success |-> FALSE, message |-> MsgInvalidPlate])

\* response.data && response.data.success
ApiSucceeded(response) ==
    /\ "data" \in DOMAIN response
    /\ "success" \in DOMAIN response.data
    /\ response.data.success

\* response.data.result && response.data.result.records && records.length > 0
HasRecords(response) ==
    /\ "result" \in DOMAIN response.data
    /\ "records" \in DOMAIN response.data.result
    /\ Len(response.data.result.records) > 0

\* The try block taking the last record, records[records.length - 1].
MapResponseLastRecord(response) ==
    IF ApiSucceeded(response)
    THEN IF HasRecords(response)
         THEN Json(200, [success |-> TRUE,
                         data |-> response.data.result.records[Len(response.data.result.records)]])
         ELSE Json(200, [success |-> FALSE, message |-> MsgNoRecords])
    ELSE Json(500, [success |-> FALSE, message |-> MsgApiError])

\* The try block answering 404 when there is no record.
MapResponseNotFound404(response) ==
    IF ApiSucceeded(response)
    THEN IF HasRecords(response)
         THEN Json(200, [success |-> TRUE, data |-> response.data.result.records[1]])
         ELSE Json(404, [success |-> FALSE, message |-> MsgNoRecords])
    ELSE Json(500, [success |-> FALSE, message |-> MsgApiError])

\* The try block looking for records before the success flag.
MapResponseRecordsFirst(response) ==
    IF "data" \in DOMAIN response /\ HasRecords(response)
    THEN Json(200, [success |-> TRUE, data |-> response.data.result.records[1]])
    ELSE IF ApiSucceeded(response)
    THEN Json(200, [success |-> FALSE, message |-> MsgNoRecords])
    ELSE Json(500, [success |-> FALSE, message |-> MsgApiError])

\* The try block answering no record with an empty data field, not a message.
MapResponseEmptyData(response) ==
    IF ApiSucceeded(response)
    THEN IF HasRecords(response)
         THEN Json(200, [success |-> TRUE, data |-> response.data.result.records[1]])
         ELSE Json(200, [success |-> FALSE, data |-> <<>>])
    ELSE Json(500, [success |-> FALSE, message |-> MsgApiError])

\* The try block after the await.
MapResponse(response) ==
    IF ApiSucceeded(response)
    THEN IF HasRecords(response)
         THEN Json(200, [success |-> TRUE, data |-> response.data.result.records[1]])
         ELSE Json(200, [success |-> FALSE, message |-> MsgNoRecords])
    ELSE Json(500, [success |-> FALSE, message |-> MsgApiError])

\* The catch block testing error.response before error.code.
MapErrorResponseFirst(error) ==
    IF "response" \in DOMAIN error
    THEN Json(error.response.status,
              [success |-> FALSE, message |-> MsgUpstreamError,
               details |-> error.response.statusText])
    ELSE IF "code" \in DOMAIN error /\ error.code = "ECONNABORTED"
    THEN Json(504, [success |-> FALSE, message |-> MsgTimeout])
    ELSE IF "request" \in DOMAIN error
    THEN Json(503, [success |-> FALSE, message |-> MsgNoResponse])
    ELSE Json(500, [success |-> FALSE, message |-> MsgInternal, error |-> error.message])

\* The catch block.
MapError(error) ==
    IF "code" \in DOMAIN error /\ error.code = "ECONNABORTED"
    THEN Json(504, [success |-> FALSE, message |-> MsgTimeout])
    ELSE IF "response" \in DOMAIN error
    THEN Json(error.response.status,
              [success |-> FALSE, message |-> MsgUpstreamError,
               details |-> error.response.statusText])
    ELSE IF "request" \in DOMAIN error
    THEN Json(503, [success |-> FALSE, message |-> MsgNoResponse])
    ELSE Json(500, [success |-> FALSE, message |-> MsgInternal, error |-> error.message])

----------------------------------------------------------------------------
(* The other routes' responses *)

RootBody ==
    [status |-> "running", message |-> "Israeli Vehicle API is live!",
     endpoints |-> [health |-> "/health", search |-> "/api/vehicle/:plateNumber",
                    example |-> "/api/vehicle/60570703"]]

HealthBody == [status |-> "ok", timestamp |-> "now", uptime |-> "uptime"]

NotFoundBody ==
    [error |-> "Not Found", message |-> "Endpoint not found",
     availableEndpoints |-> [root |-> "/", health |-> "/health",
                             search |-> "/api/vehicle/:plateNumber"]]

ErrorHandlerBody(err) ==
    [success |-> FALSE, message |-> "Internal server error", error |-> err]

----------------------------------------------------------------------------
(* State *)

Init ==
    /\ proc = "running"
    /\ pc = [r \in Requests |-> "idle"]
    /\ route = [r \in Requests |-> "none"]
    /\ plateNumber = [r \in Requests |-> <<>>]
    /\ upstreamCalls = [r \in Requests |-> <<>>]
    /\ settled = [r \in Requests |-> <<>>]
    /\ responses = [r \in Requests |-> <<>>]

\* A handler with no await: the response is written in the step that takes the request.
Respond(r, name, response) ==
    /\ proc = "running"
    /\ pc[r] = "idle"
    /\ route' = [route EXCEPT ![r] = name]
    /\ responses' = [responses EXCEPT ![r] = Append(@, response)]
    /\ pc' = [pc EXCEPT ![r] = "responded"]
    /\ UNCHANGED <<proc, plateNumber, upstreamCalls, settled>>

\* app.get('/')
RootEndpoint(r) == Respond(r, "root", Json(200, RootBody))

\* app.get('/health')
HealthCheck(r) == Respond(r, "health", Json(200, HealthBody))

\* The middleware after the routes: no route matched.
NotFoundHandler(r) == Respond(r, "notFound", Json(404, NotFoundBody))

\* The four-argument middleware: an earlier middleware (express.json() on a
\* malformed body) passed an error on, whatever the path.
ErrorHandler(r) ==
    Respond(r, "error", Json(500, ErrorHandlerBody("Unexpected token in JSON")))

\* app.get('/api/vehicle/:plateNumber') up to the await: validation, then
\* normalisation and the one axios.get.
SearchVehicle(r, p) ==
    /\ proc = "running"
    /\ pc[r] = "idle"
    /\ route' = [route EXCEPT ![r] = "vehicle"]
    /\ plateNumber' = [plateNumber EXCEPT ![r] = p]
    /\ IF InvalidPlate(p)
       THEN /\ responses' = [responses EXCEPT ![r] = Append(@, ValidationResponse)]
            /\ pc' = [pc EXCEPT ![r] = "responded"]
            /\ UNCHANGED upstreamCalls
       ELSE /\ upstreamCalls' = [upstreamCalls EXCEPT ![r] = Append(@, AxiosParams(p))]
            /\ pc' = [pc EXCEPT ![r] = "awaiting"]
            /\ UNCHANGED responses
    /\ UNCHANGED <<proc, settled>>

\* The handler resumes in the try block with the axios response.
Resume(r, response) ==
    /\ pc[r] = "awaiting"
    /\ settled' = [settled EXCEPT ![r] = Append(@, [kind |-> "fulfilled", value |-> response])]
    /\ responses' = [responses EXCEPT ![r] = Append(@, MapResponse(response))]
    /\ pc' = [pc EXCEPT ![r] = "responded"]
    /\ UNCHANGED <<proc, route, plateNumber, upstreamCalls>>

\* A catch block that issues the call once more before it gives up.
CatchWithRetry(r, error) ==
    /\ pc[r] = "awaiting"
    /\ settled' = [settled EXCEPT ![r] = Append(@, [kind |-> "rejected", value |-> error])]
    /\ IF Len(upstreamCalls[r]) < 2
       THEN /\ upstreamCalls' = [upstreamCalls EXCEPT ![r] = Append(@, AxiosParams(plateNumber[r]))]
            /\ UNCHANGED <<pc, responses>>
       ELSE /\ responses' = [responses EXCEPT ![r] = Append(@, MapError(error))]
            /\ pc' = [pc EXCEPT ![r] = "responded"]
            /\ UNCHANGED upstreamCalls
    /\ UNCHANGED <<proc, route, plateNumber>>

\* The handler resumes in the catch block with the rejection.
Catch(r, error) ==
    /\ pc[r] = "awaiting"
    /\ settled' = [settled EXCEPT ![r] = Append(@, [kind |-> "rejected", value |-> error])]
    /\ responses' = [responses EXCEPT ![r] = Append(@, MapError(error))]
    /\ pc' = [pc EXCEPT ![r] = "responded"]
    /\ UNCHANGED <<proc, route, plateNumber, upstreamCalls>>

\* The datastore replied 2xx.
AxiosFulfilled(r, response) == Resume(r, response)

\* The call failed: a reply outside 2xx, no reply, or no request at all.
AxiosRejected(r, error) == Catch(r, error)

\* An axios.get with no timeout option: no timer ever fires.
AxiosWithoutTimeout(r) ==
    /\ pc[r] = "awaiting"
    /\ FALSE
    /\ UNCHANGED vars

\* timeout: 15000 -- axios' timer fires while the call is pending.
AxiosTimeout(r) == Catch(r, TimeoutError)

\* process.on('SIGTERM') and process.on('SIGINT'): server.close().
Shutdown ==
    /\ proc = "running"
    /\ proc' = "closing"
    /\ UNCHANGED <<pc, route, plateNumber, upstreamCalls, settled, responses>>

\* The server.close() callback: every connection has ended; process.exit(0).
ServerClosed ==
    /\ proc = "closing"
    /\ \A r \in Requests : pc[r] # "awaiting"
    /\ proc' = "exited"
    /\ UNCHANGED <<pc, route, plateNumber, upstreamCalls, settled, responses>>

Next ==
    \/ \E r \in Requests : RootEndpoint(r)
    \/ \E r \in Requests : HealthCheck(r)
    \/ \E r \in Requests : NotFoundHandler(r)
    \/ \E r \in Requests : ErrorHandler(r)
    \/ \E r \in Requests, p \in SamplePlates : SearchVehicle(r, p)
    \/ \E r \in Requests, response \in AxiosResponses : AxiosFulfilled(r, response)
    \/ \E r \in Requests, error \in AxiosErrors : AxiosRejected(r, error)
    \/ \E r \in Requests : AxiosTimeout(r)
    \/ Shutdown
    \/ ServerClosed

Spec == Init /\ [][Next]_vars

\* The same server with one reply for each branch of the try block.
FairNext ==
    \/ \E r \in Requests : RootEndpoint(r)
    \/ \E r \in Requests : HealthCheck(r)
    \/ \E r \in Requests : NotFoundHandler(r)
    \/ \E r \in Requests : ErrorHandler(r)
    \/ \E r \in Requests, p \in SamplePlates : SearchVehicle(r, p)
    \/ \E r \in Requests, response \in SampleResponses : AxiosFulfilled(r, response)
    \/ \E r \in Requests, error \in AxiosErrors : AxiosRejected(r, error)
    \/ \E r \in Requests : AxiosTimeout(r)
    \/ Shutdown
    \/ ServerClosed

\* The timer of a pending call is the one thing the runtime guarantees to run:
\* the datastore may stay silent, and no signal need arrive.
FairSpec ==
    Init /\ [][FairNext]_vars /\ \A r \in Requests : WF_vars(AxiosTimeout(r))

\* One lookup, over every plate string of the bounded length: the datastore
\* stays silent, so the call ends by its timer.
PlateNext ==
    \/ pc[1] = "idle" /\ \E p \in PlateInputs : SearchVehicle(1, p)
    \/ AxiosTimeout(1)

PlateSpec == Init /\ [][PlateNext]_vars

----------------------------------------------------------------------------
(* What the properties speak of *)

Lookups == {r \in Requests : route[r] = "vehicle"}

\* The lookups whose call was answered 2xx.
Answered == {r \in Lookups : settled[r] # <<>> /\ settled[r][1].kind = "fulfilled"}

\* The lookups whose call failed.
Failed == {r \in Lookups : settled[r] # <<>> /\ settled[r][1].kind = "rejected"}

\* The success flag of an answer's payload is there and true.
SaysSuccess(a) ==
    IF "data" \in DOMAIN a
    THEN IF "success" \in DOMAIN a.data THEN a.data.success ELSE FALSE
    ELSE FALSE

\* The record list of an answer's payload; empty when there is none.
RecordsOf(a) ==
    IF "data" \in DOMAIN a
    THEN IF "result" \in DOMAIN a.data
         THEN IF "records" \in DOMAIN a.data.result THEN a.data.result.records ELSE <<>>
         ELSE <<>>
    ELSE <<>>

IsAsciiDigit(c) == c \in 48..57

\* The digits of a string, in their order.
DigitReduction(str) == SelectSeq(str, IsAsciiDigit)

----------------------------------------------------------------------------
(* Properties *)

\* C1: a lookup whose plate is absent or has fewer than 7 or more than 8
\* characters is answered 400 with success false, and no upstream call is
\* issued for it.
C1_InvalidLengthRejected ==
    \A r \in Lookups :
        (Len(plateNumber[r]) < 7 \/ Len(plateNumber[r]) > 8) =>
            /\ upstreamCalls[r] = <<>>
            /\ Len(responses[r]) = 1
            /\ responses[r][1].status = 400
            /\ responses[r][1].body.success = FALSE

C1_Witness ==
    \E r \in Lookups :
        /\ Len(plateNumber[r]) = 9
        /\ responses[r] # <<>>
        /\ responses[r][1].status = 400

\* C2: an answered call whose payload says success and has at least one record
\* is answered 200 with {success: true, data: the first record}.
C2_FoundReturnsFirstRecord ==
    \A r \in Answered :
        LET a == settled[r][1].value IN
        (SaysSuccess(a) /\ Len(RecordsOf(a)) >= 1) =>
            responses[r] = <<[status |-> 200,
                              body |-> [success |-> TRUE, data |-> RecordsOf(a)[1]]]>>

C2_Witness ==
    \E r \in Answered :
        LET a == settled[r][1].value IN
        /\ SaysSuccess(a)
        /\ Len(RecordsOf(a)) = 2
        /\ RecordsOf(a)[1] # RecordsOf(a)[2]
        /\ responses[r] # <<>>
        /\ responses[r][1].body.success

\* C3: an answered call whose payload says success but has no record is
\* answered 200, not 404, with {success: false, message: not found} and no data.
C3_NoRecordsIs200 ==
    \A r \in Answered :
        LET a == settled[r][1].value IN
        (SaysSuccess(a) /\ Len(RecordsOf(a)) = 0) =>
            /\ Len(responses[r]) = 1
            /\ responses[r][1].status = 200
            /\ responses[r][1].body = [success |-> FALSE, message |-> MsgNoRecords]
            /\ "data" \notin DOMAIN responses[r][1].body

C3_Witness ==
    \E r \in Answered :
        LET a == settled[r][1].value IN
        /\ SaysSuccess(a)
        /\ "result" \in DOMAIN a.data
        /\ "records" \in DOMAIN a.data.result
        /\ a.data.result.records = <<>>
        /\ responses[r] # <<>>
        /\ responses[r][1].status = 200

\* C4: an answered call whose payload does not say success (the flag false or
\* missing) is answered 500 with {success: false, message: API error}, records
\* or no records.
C4_PayloadFailureIs500 ==
    \A r \in Answered :
        LET a == settled[r][1].value IN
        ~SaysSuccess(a) =>
            responses[r] = <<[status |-> 500,
                              body |-> [success |-> FALSE, message |-> MsgApiError]]>>

C4_Witness ==
    \E r \in Answered :
        LET a == settled[r][1].value IN
        /\ ~SaysSuccess(a)
        /\ Len(RecordsOf(a)) >= 1
        /\ responses[r] # <<>>
        /\ responses[r][1].status = 500

\* C5: a failed call is answered with success false and, in this order of
\* priority: 504 on ECONNABORTED; else the upstream's own status, with its
\* status text as details, when it responded; else 503 when a request was made;
\* else 500 with the error's description.
C5_FailurePriority ==
    \A r \in Failed :
        LET e == settled[r][1].value
            aborted == "code" \in DOMAIN e /\ e.code = "ECONNABORTED"
            responded == "response" \in DOMAIN e
            requested == "request" \in DOMAIN e
            res == responses[r][1]
        IN  /\ Len(responses[r]) = 1
            /\ res.body.success = FALSE
            /\ aborted => res.status = 504
            /\ (~aborted /\ responded) =>
                   /\ res.status = e.response.status
                   /\ "details" \in DOMAIN res.body
                   /\ res.body.details = e.response.statusText
            /\ (~aborted /\ ~responded /\ requested) => res.status = 503
            /\ (~aborted /\ ~responded /\ ~requested) =>
                   /\ res.status = 500
                   /\ "error" \in DOMAIN res.body
                   /\ res.body.error = e.message

C5_Witness ==
    \E r \in Failed :
        LET e == settled[r][1].value IN
        /\ "code" \in DOMAIN e
        /\ e.code = "ECONNABORTED"
        /\ "response" \in DOMAIN e
        /\ "request" \in DOMAIN e
        /\ responses[r] # <<>>
        /\ responses[r][1].status = 504

\* C6: a lookup never has more than one response, the process does not exit
\* while a lookup awaits the upstream, and every lookup that awaits the upstream
\* is in the end answered, the upstream silent or not.
C6_EveryLookupAnswered ==
    \A r \in Requests :
        /\ [](Len(responses[r]) <= 1)
        /\ [](pc[r] = "awaiting" => proc # "exited")
        /\ (pc[r] = "awaiting") ~> (Len(responses[r]) = 1)

C6_Witness ==
    \E r \in Failed :
        /\ settled[r] = <<[kind |-> "rejected", value |-> TimeoutError]>>
        /\ Len(responses[r]) = 1
        /\ responses[r][1].status = 504
        /\ proc = "exited"

\* C7: a lookup that passed validation has exactly one upstream call, while it
\* awaits and after it is answered, whatever the outcome; any other request
\* has none.
C7_ExactlyOneAttempt ==
    \A r \in Requests :
        IF pc[r] # "idle" /\ route[r] = "vehicle" /\ Len(plateNumber[r]) \in 7..8
        THEN Len(upstreamCalls[r]) = 1
        ELSE upstreamCalls[r] = <<>>

C7_Witness ==
    \E r \in Failed :
        /\ pc[r] = "responded"
        /\ Len(upstreamCalls[r]) = 1
        /\ \E q \in Answered : pc[q] = "responded" /\ Len(upstreamCalls[q]) = 1

\* C8: for a plate of 7 or 8 characters the value sent upstream is the plate's
\* digits in their order, every other character removed.
C8_QueryIsDigitReduction ==
    \A r \in Lookups :
        Len(plateNumber[r]) \in 7..8 =>
            /\ Len(upstreamCalls[r]) = 1
            /\ upstreamCalls[r][1].q = DigitReduction(plateNumber[r])

C8_Witness ==
    \E r \in Lookups :
        /\ upstreamCalls[r] # <<>>
        /\ upstreamCalls[r][1].q = <<48, 57, 57, 48>>
        /\ plateNumber[r] = <<48, 45, 57, 45, 57, 45, 48>>

\* C9: the value sent upstream is never empty.
C9_QueryNonEmpty ==
    \A r \in Requests :
        \A i \in 1..Len(upstreamCalls[r]) : upstreamCalls[r][i].q # <<>>

\* C10: a response body with a success field has data exactly when success is
\* true and message exactly when success is false.
C10_DataXorMessage ==
    \A r \in Requests :
        \A i \in 1..Len(responses[r]) :
            LET body == responses[r][i].body IN
            "success" \in DOMAIN body =>
                /\ ("data" \in DOMAIN body) <=> (body.success = TRUE)
                /\ ("message" \in DOMAIN body) <=> (body.success = FALSE)

C10_Witness ==
    \E r, q \in Requests :
        /\ responses[r] # <<>>
        /\ "data" \in DOMAIN responses[r][1].body
        /\ route[q] = "error"
        /\ responses[q] # <<>>
        /\ "message" \in DOMAIN responses[q][1].body

====
